---------------------------- MODULE Spec2Model ----------------------------
(***************************************************************************)
(* A model of the frame streaming engine of vimba-rs (src/src/camera.rs): *)
(* the control thread executing Camera::start_streaming, stop_streaming,  *)
(* stream, get_frame, close and drop one device call at a time, the       *)
(* driver thread executing the frame callback `wrapper`, and the driver's *)
(* tables of announced and queued frame descriptors (Spec, FairSpec);     *)
(* the conversion of a completed frame descriptor into the Frame handed   *)
(* to the handler (FrameSpec); and the shared, reference counted          *)
(* VimbaContext of src/src/vimba.rs (VimbaSpec).                          *)
(***************************************************************************)
EXTENDS Naturals, Sequences, FiniteSets, TLC

\* ------------------------------------------------------------------ bounds
\* Largest buffer count passed to start_streaming / stream.
MaxBuffers == 2
\* Most handler invocations the driver makes in one session.
MaxCalls == 2
\* Most stop messages pending on the stop channel.
MaxSignals == 2

VARIABLES
    \* control thread
    pc,             \* position of the control thread inside the current call
    op,             \* the public operation in progress (or the last one made)
    arg_n,          \* start_streaming's `buffers` argument
    arg_k,          \* the kind of handler passed to start_streaming
    i,              \* loop index of the announce / queue / revoke loops
    ret,            \* result of the last returned call
    log,            \* device steps of the current (or last) start/stop call
    healthy,        \* the device never fails a call whose precondition holds
    \* struct Camera
    open,           \* Camera.open
    cb_ctx,         \* Camera.cb_ctx: "None" or "Some"
    \* struct CameraCallbackContext (one heap allocation)
    ctx_alloc,      \* the context (and its frames and buffers) is allocated
    nbuf,           \* frames.len() = buffers.len()
    hkind,          \* handler: "cont", "any" or "stop"
    stopped,        \* CameraCallbackContext.stopped
    chan,           \* messages pending on stop_tx --> stop_rx
    hcalls,         \* handler invocations of this context
    hstop,          \* index of the invocation that returned StreamContinue(false)
    hsent,          \* 1 + the invocations made when the first stop message was sent
    wrapped,        \* the handler is stream()'s wrapper, which reports on tx
    done,           \* messages pending on stream()'s tx --> rx
    \* driver
    announced,      \* descriptors of the live context the driver has registered
    queued,         \* descriptors of the live context in the driver's input queue
    capturing,      \* between VmbCaptureStart and VmbCaptureEnd
    acquiring,      \* the camera: "off", "on" or "stopping"
    staleAnnounced, \* the driver has registered descriptors in freed memory
    staleQueued,    \* the driver has queued descriptors in freed memory
    \* driver thread
    cbPc,           \* position of the driver thread inside `wrapper`
    cbFrame,        \* the descriptor `wrapper` was invoked with
    cbLive,         \* the context `wrapper`'s pointers refer to is allocated
    fault,          \* "none", or how the process ended
    \* one frame on its way to the handler (Frame::from_c_struct and its kin)
    frame,          \* the VmbFrame_t as the driver completed it (<<>>: none)
    view,           \* the Frame<&[u8]> the handler is called with (<<>>: none)
    owned,          \* the Frame<Vec<u8>> with_vec_data makes of it (<<>>: none)
    \* the process-wide VimbaContext (vimba.rs)
    CONTEXT,        \* the static Weak<VimbaContext>: "empty" or "weak"
    strong,         \* strong count of the Arc that CONTEXT points to
    vimbas,         \* Vimba values alive
    cameras,        \* Camera values alive
    newPc,          \* position of the thread inside Vimba::new, holding the lock
    pending,        \* VimbaContext::drop calls begun and not yet in VmbShutdown
    started         \* the driver is between VmbStartup and VmbShutdown

streamVars == <<pc, op, arg_n, arg_k, i, ret, log, open, cb_ctx, ctx_alloc,
                nbuf, hkind, stopped, chan, hcalls, hstop, hsent, wrapped, done,
                announced,
                queued, capturing, acquiring, staleAnnounced, staleQueued, cbPc,
                cbFrame, cbLive, fault>>
frameVars == <<frame, view, owned>>
vimbaVars == <<CONTEXT, strong, vimbas, cameras, newPc, pending, started>>

vars == <<streamVars, healthy, frameVars, vimbaVars>>

ctrlVars == <<pc, op, arg_n, arg_k, i, ret, log>>
camVars == <<open, cb_ctx>>
ctxVars == <<ctx_alloc, nbuf, hkind, stopped, chan, hcalls, hstop, hsent, wrapped>>
drvVars == <<announced, queued, capturing, acquiring, staleAnnounced, staleQueued>>
cbVars == <<cbPc, cbFrame, cbLive>>

Frames == 1..MaxBuffers
HandlerKinds == {"cont", "any", "stop"}

\* ----------------------------------------------------------------- helpers

\* One entry of the log: a device call (or channel send / context release),
\* its argument and whether it succeeded.
Entry(call, arg, ok) == [call |-> call, arg |-> arg, ok |-> ok]

\* The outcomes of a device call whose driver-side precondition is `pre`:
\* it fails on a closed handle or a violated precondition, and may fail for
\* any other reason (I/O, timeout) unless the device is healthy.
DevOutcomes(pre) ==
    {ok \in BOOLEAN : IF open /\ pre THEN (ok \/ ~healthy) ELSE ~ok}

\* A call returns r to its caller. start_streaming called from stream()
\* (camera.rs:319) returns into stream, which goes on to rx.recv().
Return(r) ==
    /\ ret' = r
    /\ i' = 0
    /\ pc' = "idle"

StartReturn(r) ==
    /\ ret' = r
    /\ i' = 0
    /\ arg_n' = 0
    /\ arg_k' = "none"
    /\ pc' = IF op \in {"stream", "get_frame"} /\ r = "Ok"
             THEN "stream_recv" ELSE "idle"

\* The CameraCallbackContext is dropped: its memory is freed while the driver
\* keeps whatever descriptors (ann, q) it still has, and a callback in
\* flight keeps its raw pointers.
FreeCtx(ann, q) ==
    /\ ctx_alloc' = FALSE
    /\ nbuf' = 0
    /\ hkind' = "none"
    /\ stopped' = FALSE
    /\ chan' = 0
    /\ hcalls' = 0
    /\ hstop' = 0
    /\ hsent' = 0
    /\ wrapped' = FALSE
    /\ announced' = {}
    /\ queued' = {}
    /\ staleAnnounced' = (staleAnnounced \/ ann # {})
    /\ staleQueued' = (staleQueued \/ q # {})
    /\ cbLive' = (cbPc = "idle")

Running == fault = "none"

\* -------------------------------------------------------------------- Init

\* Camera::from_handle (camera.rs:158-160): an open camera with no context,
\* and a driver that holds nothing of it.
CameraInit ==
    /\ pc = "idle"
    /\ op = "none"
    /\ arg_n = 0
    /\ arg_k = "none"
    /\ i = 0
    /\ ret = "none"
    /\ log = <<>>
    /\ open = TRUE
    /\ cb_ctx = "None"
    /\ ctx_alloc = FALSE
    /\ nbuf = 0
    /\ hkind = "none"
    /\ stopped = FALSE
    /\ chan = 0
    /\ hcalls = 0
    /\ hstop = 0
    /\ hsent = 0
    /\ wrapped = FALSE
    /\ done = 0
    /\ announced = {}
    /\ queued = {}
    /\ capturing = FALSE
    /\ acquiring = "off"
    /\ staleAnnounced = FALSE
    /\ staleQueued = FALSE
    /\ cbPc = "idle"
    /\ cbFrame = 0
    /\ cbLive = TRUE
    /\ fault = "none"

\* No frame is on its way to a handler.
NoFrame ==
    /\ frame = <<>>
    /\ view = <<>>
    /\ owned = <<>>

\* The camera was opened by a Vimba that is still alive (vimba.rs:84-91):
\* the driver is started and the context has two holders.
VimbaOpened ==
    /\ CONTEXT = "weak"
    /\ strong = 2
    /\ vimbas = 1
    /\ cameras = 1
    /\ newPc = "idle"
    /\ pending = 0
    /\ started = TRUE

Init ==
    /\ CameraInit
    /\ healthy \in BOOLEAN
    /\ NoFrame
    /\ VimbaOpened

\* --------------------------------------------------------- start_streaming

\* The caller invokes start_streaming(handler, buffers).
CallStartStreaming(n, k) ==
    /\ Running /\ pc = "idle" /\ op # "drop"
    /\ UNCHANGED <<frameVars, vimbaVars>>
    /\ pc' = "start_streaming"
    /\ op' = "start_streaming"
    /\ arg_n' = n
    /\ arg_k' = k
    /\ ret' = "none"
    /\ log' = <<>>
    /\ UNCHANGED <<i, healthy, camVars, ctxVars, done, drvVars, cbVars, fault>>

\* start_streaming without the test of camera.rs:193.
StartBusyCheckMissing ==
    /\ Running /\ pc = "start_streaming"
    /\ UNCHANGED <<frameVars, vimbaVars>>
    /\ pc' = "s_payload"
    /\ UNCHANGED <<op, arg_n, arg_k, i, ret, log, healthy, camVars, ctxVars, done,
                   drvVars, cbVars, fault>>

\* start_streaming refusing a second session only while the first has not
\* been told to stop.
StartBusyCheckUnlessStopped ==
    /\ Running /\ pc = "start_streaming"
    /\ UNCHANGED <<frameVars, vimbaVars>>
    /\ IF cb_ctx = "Some" /\ ~stopped
       THEN StartReturn("DeviceBusy")
       ELSE /\ pc' = "s_payload"
            /\ UNCHANGED <<arg_n, arg_k, i, ret>>
    /\ UNCHANGED <<op, log, healthy, camVars, ctxVars, done, drvVars, cbVars, fault>>

\* camera.rs:193: a second session is refused.
StartBusyCheck ==
    /\ Running /\ pc = "start_streaming"
    /\ UNCHANGED <<frameVars, vimbaVars>>
    /\ IF cb_ctx = "Some"
       THEN StartReturn("DeviceBusy")
       ELSE /\ pc' = "s_payload"
            /\ UNCHANGED <<arg_n, arg_k, i, ret>>
    /\ UNCHANGED <<op, log, healthy, camVars, ctxVars, done, drvVars, cbVars, fault>>

\* camera.rs:195-207: read PayloadSize, then allocate the pinned context.
StartPayloadSize ==
    /\ Running /\ pc = "s_payload"
    /\ UNCHANGED <<frameVars, vimbaVars>>
    /\ \E ok \in DevOutcomes(TRUE) :
        /\ log' = Append(log, Entry("PayloadSize", 0, ok))
        /\ IF ok
           THEN /\ ctx_alloc' = TRUE
                /\ nbuf' = arg_n
                /\ hkind' = arg_k
                /\ stopped' = FALSE
                /\ chan' = 0
                /\ hcalls' = 0
                /\ hstop' = 0
                /\ hsent' = 0
                /\ wrapped' = (op \in {"stream", "get_frame"})
                /\ i' = 0
                /\ pc' = "s_announce"
                /\ UNCHANGED <<arg_n, arg_k, ret>>
           ELSE /\ StartReturn("Err")
                /\ UNCHANGED ctxVars
    /\ UNCHANGED <<op, healthy, camVars, done, drvVars, cbVars, fault>>

\* A `?` inside start_streaming after the context was allocated: the local
\* cb_ctx goes out of scope and is freed, nothing is revoked.
StartFail ==
    /\ FreeCtx(announced, queued)
    /\ StartReturn("Err")
    /\ UNCHANGED <<op, healthy, camVars, done, capturing, acquiring, cbPc, cbFrame, fault>>

\* camera.rs:217-226: announce frame i.
StartAnnounce ==
    /\ Running /\ pc = "s_announce"
    /\ UNCHANGED <<frameVars, vimbaVars>>
    /\ \E ok \in DevOutcomes(TRUE) :
        /\ log' = Append(log, Entry("FrameAnnounce", i + 1, ok))
        /\ IF ok
           THEN /\ announced' = announced \cup {i + 1}
                /\ i' = IF i + 1 = nbuf THEN 0 ELSE i + 1
                /\ pc' = IF i + 1 = nbuf THEN "s_selector" ELSE "s_announce"
                /\ UNCHANGED <<op, arg_n, arg_k, ret, healthy, camVars, ctxVars, done,
                               queued, capturing, acquiring, staleAnnounced,
                               staleQueued, cbVars, fault>>
           ELSE StartFail

\* camera.rs:252: AcquisitionStatusSelector = AcquisitionActive.
StartStatusSelector ==
    /\ Running /\ pc = "s_selector"
    /\ UNCHANGED <<frameVars, vimbaVars>>
    /\ \E ok \in DevOutcomes(TRUE) :
        /\ log' = Append(log, Entry("AcquisitionStatusSelector", 0, ok))
        /\ IF ok
           THEN /\ pc' = "s_mode"
                /\ UNCHANGED <<op, arg_n, arg_k, i, ret, healthy, camVars, ctxVars,
                               done, drvVars, cbVars, fault>>
           ELSE StartFail

\* start_streaming queueing its frames without the VmbCaptureStart of
\* camera.rs:256.
StartAcquisitionModeThenQueue ==
    /\ Running /\ pc = "s_mode"
    /\ UNCHANGED <<frameVars, vimbaVars>>
    /\ \E ok \in DevOutcomes(TRUE) :
        /\ log' = Append(log, Entry("AcquisitionMode", 0, ok))
        /\ IF ok
           THEN /\ pc' = "s_queue"
                /\ UNCHANGED <<op, arg_n, arg_k, i, ret, healthy, camVars, ctxVars,
                               done, drvVars, cbVars, fault>>
           ELSE StartFail

\* camera.rs:253: AcquisitionMode = Continuous.
StartAcquisitionMode ==
    /\ Running /\ pc = "s_mode"
    /\ UNCHANGED <<frameVars, vimbaVars>>
    /\ \E ok \in DevOutcomes(TRUE) :
        /\ log' = Append(log, Entry("AcquisitionMode", 0, ok))
        /\ IF ok
           THEN /\ pc' = "s_capture"
                /\ UNCHANGED <<op, arg_n, arg_k, i, ret, healthy, camVars, ctxVars,
                               done, drvVars, cbVars, fault>>
           ELSE StartFail

\* camera.rs:256: VmbCaptureStart.
StartCaptureStart ==
    /\ Running /\ pc = "s_capture"
    /\ UNCHANGED <<frameVars, vimbaVars>>
    /\ \E ok \in DevOutcomes(TRUE) :
        /\ log' = Append(log, Entry("CaptureStart", 0, ok))
        /\ IF ok
           THEN /\ capturing' = TRUE
                /\ pc' = "s_queue"
                /\ UNCHANGED <<op, arg_n, arg_k, i, ret, healthy, camVars, ctxVars,
                               done, announced, queued, acquiring, staleAnnounced,
                               staleQueued, cbVars, fault>>
           ELSE StartFail

\* camera.rs:258-263: queue frame i; after the last one the context is
\* stored in the camera.
StartFrameQueue ==
    /\ Running /\ pc = "s_queue"
    /\ UNCHANGED <<frameVars, vimbaVars>>
    /\ \E ok \in DevOutcomes(i + 1 \in announced) :
        /\ log' = Append(log, Entry("CaptureFrameQueue", i + 1, ok))
        /\ IF ok
           THEN /\ queued' = queued \cup {i + 1}
                /\ i' = IF i + 1 = nbuf THEN 0 ELSE i + 1
                /\ pc' = IF i + 1 = nbuf THEN "s_acqstart" ELSE "s_queue"
                /\ cb_ctx' = IF i + 1 = nbuf THEN "Some" ELSE cb_ctx
                /\ UNCHANGED <<op, arg_n, arg_k, ret, healthy, open, ctxVars, done,
                               announced, capturing, acquiring, staleAnnounced,
                               staleQueued, cbVars, fault>>
           ELSE StartFail

\* camera.rs:266-270: run AcquisitionStart; on failure drop the context.
StartAcquisitionStart ==
    /\ Running /\ pc = "s_acqstart"
    /\ UNCHANGED <<frameVars, vimbaVars>>
    /\ \E ok \in DevOutcomes(TRUE) :
        /\ log' = Append(log, Entry("AcquisitionStart", 0, ok))
        /\ IF ok
           THEN /\ acquiring' = "on"
                /\ StartReturn("Ok")
                /\ UNCHANGED <<op, healthy, camVars, ctxVars, done, announced, queued,
                               capturing, staleAnnounced, staleQueued, cbVars, fault>>
           ELSE /\ cb_ctx' = "None"
                /\ FreeCtx(announced, queued)
                /\ StartReturn("Err")
                /\ UNCHANGED <<op, healthy, open, done, capturing, acquiring,
                               cbPc, cbFrame, fault>>

\* ---------------------------------------------------------- stop_streaming

\* The caller invokes stop_streaming().
CallStopStreaming ==
    /\ Running /\ pc = "idle" /\ op # "drop"
    /\ UNCHANGED <<frameVars, vimbaVars>>
    /\ chan < MaxSignals
    /\ pc' = "stop_streaming"
    /\ op' = "stop_streaming"
    /\ ret' = "none"
    /\ log' = <<>>
    /\ UNCHANGED <<arg_n, arg_k, i, healthy, camVars, ctxVars, done, drvVars, cbVars, fault>>

\* stop_streaming without the `if let Some(cb_ctx)` of camera.rs:274: it
\* sends and goes on whether or not there is a context.
StopSendWithoutContextTest ==
    /\ Running /\ pc = "stop_streaming"
    /\ UNCHANGED <<frameVars, vimbaVars>>
    /\ chan' = chan + 1
    /\ hsent' = IF hsent = 0 THEN hcalls + 1 ELSE hsent
    /\ log' = Append(log, Entry("StopSend", 0, TRUE))
    /\ pc' = "t_acqstop"
    /\ UNCHANGED <<op, arg_n, arg_k, i, ret, healthy, camVars, ctx_alloc, nbuf, hkind,
                   stopped, hcalls, hstop, wrapped, done, drvVars, cbVars, fault>>

\* camera.rs:274-280: nothing to do without a context; otherwise send the
\* stop message down stop_tx.
StopSend ==
    /\ Running /\ pc = "stop_streaming"
    /\ UNCHANGED <<frameVars, vimbaVars>>
    /\ IF cb_ctx = "Some"
       THEN /\ chan' = chan + 1
            /\ hsent' = IF hsent = 0 THEN hcalls + 1 ELSE hsent
            /\ log' = Append(log, Entry("StopSend", 0, TRUE))
            /\ pc' = "t_acqstop"
            /\ UNCHANGED <<i, ret>>
       ELSE /\ Return("Ok")
            /\ UNCHANGED <<chan, hsent, log>>
    /\ UNCHANGED <<op, arg_n, arg_k, healthy, camVars, ctx_alloc, nbuf, hkind, stopped,
                   hcalls, hstop, wrapped, done, drvVars, cbVars, fault>>

\* stop_streaming dropping the context when one of its device calls fails.
StopFailReleasesContext ==
    /\ Return("Err")
    /\ cb_ctx' = "None"
    /\ FreeCtx(announced, queued)
    /\ UNCHANGED <<op, arg_n, arg_k, healthy, open, done, capturing, acquiring,
                   cbPc, cbFrame, fault>>

\* A `?` inside stop_streaming: the error is returned, the context is kept.
StopFail ==
    /\ Return("Err")
    /\ UNCHANGED <<op, arg_n, arg_k, healthy, camVars, ctxVars, done, drvVars, cbVars, fault>>

\* camera.rs:282: run AcquisitionStop.
StopAcquisitionStop ==
    /\ Running /\ pc = "t_acqstop"
    /\ UNCHANGED <<frameVars, vimbaVars>>
    /\ \E ok \in DevOutcomes(TRUE) :
        /\ log' = Append(log, Entry("AcquisitionStop", 0, ok))
        /\ IF ok
           THEN /\ acquiring' = IF acquiring = "on" THEN "stopping" ELSE acquiring
                /\ pc' = "t_poll"
                /\ UNCHANGED <<op, arg_n, arg_k, i, ret, healthy, camVars, ctxVars, done,
                               announced, queued, capturing, staleAnnounced,
                               staleQueued, cbVars, fault>>
           ELSE StopFail

\* stop_streaming reading AcquisitionStatus once, without the loop.
StopPollStatusNoWait ==
    /\ Running /\ pc = "t_poll"
    /\ UNCHANGED <<frameVars, vimbaVars>>
    /\ \E ok \in DevOutcomes(TRUE) :
        LET e == Entry("AcquisitionStatus", IF acquiring = "off" THEN 0 ELSE 1, ok)
        IN  /\ log' = IF log[Len(log)] = e THEN log ELSE Append(log, e)
            /\ IF ok
               THEN /\ pc' = "t_capend"
                    /\ UNCHANGED <<op, arg_n, arg_k, i, ret, healthy, camVars, ctxVars,
                                   done, drvVars, cbVars, fault>>
               ELSE StopFail

\* stop_streaming leaving the loop of camera.rs:286-288 after its first
\* sleep, whatever AcquisitionStatus reads then.
StopPollStatusSleepsOnce ==
    /\ Running /\ pc = "t_poll"
    /\ UNCHANGED <<frameVars, vimbaVars>>
    /\ \E ok \in DevOutcomes(TRUE) :
        LET e == Entry("AcquisitionStatus", IF acquiring = "off" THEN 0 ELSE 1, ok)
        IN  /\ log' = IF log[Len(log)] = e THEN log ELSE Append(log, e)
            /\ IF ok
               THEN /\ pc' = IF acquiring = "off" \/ log[Len(log)] = e
                             THEN "t_capend" ELSE "t_poll"
                    /\ UNCHANGED <<op, arg_n, arg_k, i, ret, healthy, camVars, ctxVars,
                                   done, drvVars, cbVars, fault>>
               ELSE StopFail

\* camera.rs:286-288: read AcquisitionStatus; sleep and read again while it
\* is true. Consecutive identical reads are logged once.
StopPollStatus ==
    /\ Running /\ pc = "t_poll"
    /\ UNCHANGED <<frameVars, vimbaVars>>
    /\ \E ok \in DevOutcomes(TRUE) :
        LET e == Entry("AcquisitionStatus", IF acquiring = "off" THEN 0 ELSE 1, ok)
        IN  /\ log' = IF log[Len(log)] = e THEN log ELSE Append(log, e)
            /\ IF ok
               THEN /\ pc' = IF acquiring = "off" THEN "t_capend" ELSE "t_poll"
                    /\ UNCHANGED <<op, arg_n, arg_k, i, ret, healthy, camVars, ctxVars,
                                   done, drvVars, cbVars, fault>>
               ELSE StopFail

\* camera.rs:293: VmbCaptureEnd.
StopCaptureEnd ==
    /\ Running /\ pc = "t_capend"
    /\ UNCHANGED <<frameVars, vimbaVars>>
    /\ \E ok \in DevOutcomes(TRUE) :
        /\ log' = Append(log, Entry("CaptureEnd", 0, ok))
        /\ IF ok
           THEN /\ capturing' = FALSE
                /\ pc' = "t_flush"
                /\ UNCHANGED <<op, arg_n, arg_k, i, ret, healthy, camVars, ctxVars, done,
                               announced, queued, acquiring, staleAnnounced,
                               staleQueued, cbVars, fault>>
           ELSE StopFail

\* camera.rs:294: VmbCaptureQueueFlush empties the driver's input queue.
StopQueueFlush ==
    /\ Running /\ pc = "t_flush"
    /\ UNCHANGED <<frameVars, vimbaVars>>
    /\ \E ok \in DevOutcomes(TRUE) :
        /\ log' = Append(log, Entry("CaptureQueueFlush", 0, ok))
        /\ IF ok
           THEN /\ queued' = {}
                /\ staleQueued' = FALSE
                /\ pc' = "t_revoke"
                /\ UNCHANGED <<op, arg_n, arg_k, i, ret, healthy, camVars, ctxVars, done,
                               announced, capturing, acquiring, staleAnnounced,
                               cbVars, fault>>
           ELSE StopFail

\* stop_streaming revoking only the first frame before it drops the context.
StopFrameRevokeFirstOnly ==
    /\ Running /\ pc = "t_revoke"
    /\ UNCHANGED <<frameVars, vimbaVars>>
    /\ \E ok \in DevOutcomes(i + 1 \in announced /\ i + 1 \notin queued) :
        /\ log' = IF ok
                  THEN log \o <<Entry("FrameRevoke", i + 1, ok), Entry("Release", nbuf, TRUE)>>
                  ELSE Append(log, Entry("FrameRevoke", i + 1, ok))
        /\ IF ok
           THEN /\ cb_ctx' = "None"
                /\ FreeCtx(announced \ {i + 1}, queued)
                /\ Return("Ok")
                /\ UNCHANGED <<op, arg_n, arg_k, healthy, open, done, capturing,
                               acquiring, cbPc, cbFrame, fault>>
           ELSE StopFail

\* camera.rs:297-302: revoke frame i; after the last one the context is
\* dropped. The driver refuses to revoke a frame that is queued (the "Other"
\* error of camera.rs:290-292) or that it does not know.
StopFrameRevoke ==
    /\ Running /\ pc = "t_revoke"
    /\ UNCHANGED <<frameVars, vimbaVars>>
    /\ \E ok \in DevOutcomes(i + 1 \in announced /\ i + 1 \notin queued) :
        /\ log' = IF ok /\ i + 1 = nbuf
                  THEN log \o <<Entry("FrameRevoke", i + 1, ok), Entry("Release", nbuf, TRUE)>>
                  ELSE Append(log, Entry("FrameRevoke", i + 1, ok))
        /\ IF ok
           THEN IF i + 1 = nbuf
                THEN /\ cb_ctx' = "None"
                     /\ FreeCtx(announced \ {i + 1}, queued)
                     /\ Return("Ok")
                     /\ UNCHANGED <<op, arg_n, arg_k, healthy, open, done, capturing,
                                    acquiring, cbPc, cbFrame, fault>>
                ELSE /\ announced' = announced \ {i + 1}
                     /\ i' = i + 1
                     /\ UNCHANGED <<pc, op, arg_n, arg_k, ret, healthy, camVars, ctxVars,
                                    done, queued, capturing, acquiring, staleAnnounced,
                                    staleQueued, cbVars, fault>>
           ELSE StopFail

\* ------------------------------------------------------ stream, get_frame

\* The caller invokes stream(handler, buffers): camera.rs:308-319.
CallStream(n, k) ==
    /\ Running /\ pc = "idle" /\ op # "drop"
    /\ UNCHANGED <<frameVars, vimbaVars>>
    /\ pc' = "start_streaming"
    /\ op' = "stream"
    /\ arg_n' = n
    /\ arg_k' = k
    /\ ret' = "none"
    /\ log' = <<>>
    /\ done' = 0
    /\ UNCHANGED <<i, healthy, camVars, ctxVars, drvVars, cbVars, fault>>

\* get_frame with a handler that copies the frame and returns
\* StreamContinue(true).
CallGetFrameHandlerContinues ==
    /\ Running /\ pc = "idle" /\ op # "drop"
    /\ UNCHANGED <<frameVars, vimbaVars>>
    /\ pc' = "start_streaming"
    /\ op' = "get_frame"
    /\ arg_n' = 2
    /\ arg_k' = "any"
    /\ ret' = "none"
    /\ log' = <<>>
    /\ done' = 0
    /\ UNCHANGED <<i, healthy, camVars, ctxVars, drvVars, cbVars, fault>>

\* The caller invokes get_frame(): camera.rs:176-185, a stream of 2 buffers
\* whose handler copies the frame and returns StreamContinue(false).
CallGetFrame ==
    /\ Running /\ pc = "idle" /\ op # "drop"
    /\ UNCHANGED <<frameVars, vimbaVars>>
    /\ pc' = "start_streaming"
    /\ op' = "get_frame"
    /\ arg_n' = 2
    /\ arg_k' = "stop"
    /\ ret' = "none"
    /\ log' = <<>>
    /\ done' = 0
    /\ UNCHANGED <<i, healthy, camVars, ctxVars, drvVars, cbVars, fault>>

\* stream going on to stop_streaming without waiting in rx.recv().
StreamRecvWithoutWaiting ==
    /\ Running /\ pc = "stream_recv"
    /\ UNCHANGED <<frameVars, vimbaVars>>
    /\ done' = 0
    /\ pc' = "stop_streaming"
    /\ log' = <<>>
    /\ UNCHANGED <<op, arg_n, arg_k, i, ret, healthy, camVars, ctxVars, drvVars, cbVars, fault>>

\* camera.rs:320-321: rx.recv() returns once the wrapped handler has sent,
\* and stream goes on to stop_streaming.
StreamRecv ==
    /\ Running /\ pc = "stream_recv"
    /\ UNCHANGED <<frameVars, vimbaVars>>
    /\ done > 0
    /\ done' = done - 1
    /\ pc' = "stop_streaming"
    /\ log' = <<>>
    /\ UNCHANGED <<op, arg_n, arg_k, i, ret, healthy, camVars, ctxVars, drvVars, cbVars, fault>>

\* ------------------------------------------------------------ close, drop

\* The caller invokes close().
CallClose ==
    /\ Running /\ pc = "idle" /\ op # "drop"
    /\ UNCHANGED <<frameVars, vimbaVars>>
    /\ pc' = "close"
    /\ op' = "close"
    /\ ret' = "none"
    /\ log' = <<>>
    /\ UNCHANGED <<arg_n, arg_k, i, healthy, camVars, ctxVars, done, drvVars, cbVars, fault>>

\* The Camera goes out of scope: camera.rs:357-363 calls close().
CallDrop ==
    /\ Running /\ pc = "idle" /\ op # "drop"
    /\ UNCHANGED <<frameVars, vimbaVars>>
    /\ pc' = "close"
    /\ op' = "drop"
    /\ ret' = "none"
    /\ log' = <<>>
    /\ UNCHANGED <<arg_n, arg_k, i, healthy, camVars, ctxVars, done, drvVars, cbVars, fault>>

\* camera.rs:162-174: VmbCameraClose; on success the context is dropped
\* without any other device call. In drop an error panics, and the unwinding
\* drops the Camera's fields, the context among them.
CameraClose ==
    /\ Running /\ pc = "close"
    /\ UNCHANGED <<frameVars, vimbaVars>>
    /\ IF open
       THEN \E ok \in DevOutcomes(TRUE) :
            /\ log' = Append(log, Entry("CameraClose", 0, ok))
            /\ open' = ~ok
            /\ cb_ctx' = IF ok \/ op = "drop" THEN "None" ELSE cb_ctx
            /\ IF (ok \/ op = "drop") /\ cb_ctx = "Some"
               THEN FreeCtx(announced, queued)
               ELSE UNCHANGED <<ctxVars, announced, queued, staleAnnounced, staleQueued,
                                cbLive>>
            /\ Return(IF ok THEN "Ok" ELSE "Err")
            /\ fault' = IF op = "drop" /\ ~ok THEN "panic" ELSE fault
       ELSE /\ Return("Ok")
            /\ UNCHANGED <<log, camVars, ctxVars, announced, queued, staleAnnounced,
                           staleQueued, cbLive, fault>>
    /\ UNCHANGED <<op, arg_n, arg_k, healthy, done, capturing, acquiring, cbPc, cbFrame>>

\* ------------------------------------------------------------- the driver

\* The driver fills a queued frame of the live context and invokes the
\* callback registered for it (camera.rs:231) on its own thread, one
\* callback at a time.
DriverComplete(f) ==
    /\ Running /\ cbPc = "idle"
    /\ UNCHANGED <<frameVars, vimbaVars>>
    /\ f \in queued
    /\ capturing /\ acquiring # "off"
    /\ hcalls < MaxCalls
    /\ queued' = queued \ {f}
    /\ cbPc' = "check"
    /\ cbFrame' = f
    /\ cbLive' = TRUE
    /\ UNCHANGED <<ctrlVars, healthy, camVars, ctxVars, done, announced, capturing,
                   acquiring, staleAnnounced, staleQueued, fault>>

\* The driver fills a queued frame whose memory was freed and calls the
\* callback with its dangling context pointers: undefined behaviour.
DriverCompleteStale ==
    /\ Running /\ cbPc = "idle"
    /\ UNCHANGED <<frameVars, vimbaVars>>
    /\ staleQueued
    /\ capturing /\ acquiring # "off"
    /\ fault' = "uaf"
    /\ UNCHANGED <<ctrlVars, healthy, camVars, ctxVars, done, drvVars, cbVars>>

\* The camera stops acquiring some time after AcquisitionStop.
DeviceQuiesce ==
    /\ Running /\ acquiring = "stopping"
    /\ UNCHANGED <<frameVars, vimbaVars>>
    /\ acquiring' = "off"
    /\ UNCHANGED <<ctrlVars, healthy, camVars, ctxVars, done, announced, queued,
                   capturing, staleAnnounced, staleQueued, cbVars, fault>>

\* ---------------------------------------------------------------- wrapper

\* wrapper without the `if *stopped { return; }` of camera.rs:237.
WrapperCheckIgnoresStopped ==
    /\ Running /\ cbPc = "check" /\ cbLive
    /\ UNCHANGED <<frameVars, vimbaVars>>
    /\ chan' = IF chan > 0 THEN chan - 1 ELSE chan
    /\ stopped' = (stopped \/ chan > 0)
    /\ cbPc' = "handler"
    /\ UNCHANGED <<ctrlVars, healthy, camVars, ctx_alloc, nbuf, hkind, hcalls, hstop, hsent,
                   wrapped, done, drvVars, cbFrame, cbLive, fault>>

\* wrapper testing the stopped flag before it polls the stop channel.
WrapperCheckTestsBeforePolling ==
    /\ Running /\ cbPc = "check" /\ cbLive
    /\ UNCHANGED <<frameVars, vimbaVars>>
    /\ chan' = IF ~stopped /\ chan > 0 THEN chan - 1 ELSE chan
    /\ stopped' = (stopped \/ chan > 0)
    /\ cbPc' = IF stopped THEN "idle" ELSE "handler"
    /\ cbFrame' = IF stopped THEN 0 ELSE cbFrame
    /\ UNCHANGED <<ctrlVars, healthy, camVars, ctx_alloc, nbuf, hkind, hcalls, hstop, hsent,
                   wrapped, done, drvVars, cbLive, fault>>

\* wrapper taking the stop message off the channel without setting stopped
\* (camera.rs:236 without its `*stopped = true`).
WrapperCheckDropsMessage ==
    /\ Running /\ cbPc = "check" /\ cbLive
    /\ UNCHANGED <<frameVars, vimbaVars>>
    /\ chan' = IF chan > 0 THEN chan - 1 ELSE chan
    /\ cbPc' = IF stopped THEN "idle" ELSE "handler"
    /\ cbFrame' = IF stopped THEN 0 ELSE cbFrame
    /\ UNCHANGED <<ctrlVars, healthy, camVars, ctx_alloc, nbuf, hkind, stopped, hcalls,
                   hstop, hsent, wrapped, done, drvVars, cbLive, fault>>

\* camera.rs:233-237: poll the stop channel, then test the stopped flag.
WrapperCheck ==
    /\ Running /\ cbPc = "check" /\ cbLive
    /\ UNCHANGED <<frameVars, vimbaVars>>
    /\ chan' = IF chan > 0 THEN chan - 1 ELSE chan
    /\ stopped' = (stopped \/ chan > 0)
    /\ cbPc' = IF stopped' THEN "idle" ELSE "handler"
    /\ cbFrame' = IF stopped' THEN 0 ELSE cbFrame
    /\ UNCHANGED <<ctrlVars, healthy, camVars, ctx_alloc, nbuf, hkind, hcalls, hstop, hsent,
                   wrapped, done, drvVars, cbLive, fault>>

\* What a handler of kind k may return: StreamContinue(TRUE) or (FALSE).
HandlerResults(k) ==
    CASE k = "cont" -> {TRUE}
      [] k = "stop" -> {FALSE}
      [] OTHER -> BOOLEAN

\* camera.rs:239-242: invoke the handler on the frame. stream()'s wrapper
\* (camera.rs:311-317) sends on tx when the handler returns false.
WrapperHandler ==
    /\ Running /\ cbPc = "handler" /\ cbLive
    /\ UNCHANGED <<frameVars, vimbaVars>>
    /\ \E r \in HandlerResults(hkind) :
        /\ hcalls' = hcalls + 1
        /\ hstop' = IF ~r /\ hstop = 0 THEN hcalls + 1 ELSE hstop
        /\ done' = IF ~r /\ wrapped THEN done + 1 ELSE done
        /\ cbPc' = IF r THEN "requeue" ELSE "setstop"
    /\ UNCHANGED <<ctrlVars, healthy, camVars, ctx_alloc, nbuf, hkind, stopped, chan,
                   hsent, wrapped, drvVars, cbFrame, cbLive, fault>>

\* wrapper without the `else` of camera.rs:245: it sets stopped and goes on
\* to queue the frame.
WrapperSetStoppedFallsThrough ==
    /\ Running /\ cbPc = "setstop" /\ cbLive
    /\ UNCHANGED <<frameVars, vimbaVars>>
    /\ stopped' = TRUE
    /\ cbPc' = "requeue"
    /\ UNCHANGED <<ctrlVars, healthy, camVars, ctx_alloc, nbuf, hkind, chan, hcalls,
                   hstop, hsent, wrapped, done, drvVars, cbFrame, cbLive, fault>>

\* wrapper dropping the camera's context itself when the handler returns
\* StreamContinue(false).
WrapperSetStoppedEndsSession ==
    /\ Running /\ cbPc = "setstop" /\ cbLive
    /\ UNCHANGED <<frameVars, vimbaVars>>
    /\ cb_ctx' = "None"
    /\ FreeCtx(announced, queued)
    /\ cbPc' = "idle"
    /\ cbFrame' = 0
    /\ UNCHANGED <<ctrlVars, healthy, open, done, capturing, acquiring, fault>>

\* camera.rs:243: the handler returned StreamContinue(false).
WrapperSetStopped ==
    /\ Running /\ cbPc = "setstop" /\ cbLive
    /\ UNCHANGED <<frameVars, vimbaVars>>
    /\ stopped' = TRUE
    /\ cbPc' = "idle"
    /\ cbFrame' = 0
    /\ UNCHANGED <<ctrlVars, healthy, camVars, ctx_alloc, nbuf, hkind, chan, hcalls,
                   hstop, hsent, wrapped, done, drvVars, cbLive, fault>>

\* wrapper dropping the result of VmbCaptureFrameQueue instead of unwrapping
\* it.
WrapperRequeueIgnoresError ==
    /\ Running /\ cbPc = "requeue" /\ cbLive
    /\ UNCHANGED <<frameVars, vimbaVars>>
    /\ \E ok \in DevOutcomes(cbFrame \in announced) :
        /\ queued' = IF ok THEN queued \cup {cbFrame} ELSE queued
        /\ cbPc' = "idle"
        /\ cbFrame' = 0
    /\ UNCHANGED <<ctrlVars, healthy, camVars, ctxVars, done, announced, capturing,
                   acquiring, staleAnnounced, staleQueued, cbLive, fault>>

\* wrapper queueing the frame after the one it was invoked with.
WrapperRequeueOtherFrame ==
    /\ Running /\ cbPc = "requeue" /\ cbLive
    /\ UNCHANGED <<frameVars, vimbaVars>>
    /\ \E ok \in DevOutcomes((cbFrame % nbuf) + 1 \in announced) :
        /\ queued' = IF ok THEN queued \cup {(cbFrame % nbuf) + 1} ELSE queued
        /\ fault' = IF ok THEN fault ELSE "abort"
        /\ cbPc' = IF ok THEN "idle" ELSE cbPc
        /\ cbFrame' = IF ok THEN 0 ELSE cbFrame
    /\ UNCHANGED <<ctrlVars, healthy, camVars, ctxVars, done, announced, capturing,
                   acquiring, staleAnnounced, staleQueued, cbLive>>

\* camera.rs:246: queue the same frame again; an error is unwrapped, which
\* panics inside the extern "C" callback and ends the process.
WrapperRequeue ==
    /\ Running /\ cbPc = "requeue" /\ cbLive
    /\ UNCHANGED <<frameVars, vimbaVars>>
    /\ \E ok \in DevOutcomes(cbFrame \in announced) :
        /\ queued' = IF ok THEN queued \cup {cbFrame} ELSE queued
        /\ fault' = IF ok THEN fault ELSE "abort"
        /\ cbPc' = IF ok THEN "idle" ELSE cbPc
        /\ cbFrame' = IF ok THEN 0 ELSE cbFrame
    /\ UNCHANGED <<ctrlVars, healthy, camVars, ctxVars, done, announced, capturing,
                   acquiring, staleAnnounced, staleQueued, cbLive>>

\* The callback goes on after its context was freed: every access it makes
\* (stop_rx, stopped, the handler, the frame) is a use after free.
WrapperUseAfterFree ==
    /\ Running /\ cbPc # "idle" /\ ~cbLive
    /\ UNCHANGED <<frameVars, vimbaVars>>
    /\ fault' = "uaf"
    /\ UNCHANGED <<ctrlVars, healthy, camVars, ctxVars, done, drvVars, cbVars>>

\* ----------------------------------------------------------- specification

Next ==
    \/ \E n \in 1..MaxBuffers, k \in HandlerKinds : CallStartStreaming(n, k)
    \/ StartBusyCheck
    \/ StartPayloadSize
    \/ StartAnnounce
    \/ StartStatusSelector
    \/ StartAcquisitionMode
    \/ StartCaptureStart
    \/ StartFrameQueue
    \/ StartAcquisitionStart
    \/ CallStopStreaming
    \/ StopSend
    \/ StopAcquisitionStop
    \/ StopPollStatus
    \/ StopCaptureEnd
    \/ StopQueueFlush
    \/ StopFrameRevoke
    \/ \E n \in 1..MaxBuffers, k \in HandlerKinds : CallStream(n, k)
    \/ CallGetFrame
    \/ StreamRecv
    \/ CallClose
    \/ CallDrop
    \/ CameraClose
    \/ \E f \in Frames : DriverComplete(f)
    \/ DriverCompleteStale
    \/ DeviceQuiesce
    \/ WrapperCheck
    \/ WrapperHandler
    \/ WrapperSetStopped
    \/ WrapperRequeue
    \/ WrapperUseAfterFree

Spec == Init /\ [][Next]_vars


\* The control thread runs every call it was given to its end, the camera
\* stops acquiring some time after AcquisitionStop, and a callback the
\* driver has begun runs to its end. Nothing obliges the caller to make
\* another call or the driver to complete another frame.
Fairness ==
    /\ WF_vars(StartBusyCheck) /\ WF_vars(StartPayloadSize) /\ WF_vars(StartAnnounce)
    /\ WF_vars(StartStatusSelector) /\ WF_vars(StartAcquisitionMode)
    /\ WF_vars(StartCaptureStart) /\ WF_vars(StartFrameQueue)
    /\ WF_vars(StartAcquisitionStart)
    /\ WF_vars(StopSend) /\ WF_vars(StopAcquisitionStop) /\ WF_vars(StopPollStatus)
    /\ WF_vars(StopCaptureEnd) /\ WF_vars(StopQueueFlush) /\ WF_vars(StopFrameRevoke)
    /\ WF_vars(StreamRecv) /\ WF_vars(CameraClose)
    /\ WF_vars(DeviceQuiesce)
    /\ WF_vars(WrapperCheck) /\ WF_vars(WrapperHandler) /\ WF_vars(WrapperSetStopped)
    /\ WF_vars(WrapperRequeue) /\ WF_vars(WrapperUseAfterFree)

FairSpec == Init /\ [][Next]_vars /\ Fairness

\* ------------------------------------------------------------------ Frame

\* Largest bufferSize of a frame descriptor.
MaxSize == 2

\* Unsigned integers are little-endian sequences of 16-bit limbs: two for a
\* VmbUint32_t, four for a u64 or a usize.
LimbMax == 2^16 - 1
U32s == {<<0, 0>>, <<1, 0>>, <<LimbMax, LimbMax>>}
U64s == {<<0, 0, 0, 0>>, <<0, 0, 1, 0>>, <<LimbMax, LimbMax, LimbMax, LimbMax>>}
Bytes == {0, 255}

\* The byte sequences of length n.
ByteSeqs(n) == [1..n -> Bytes]

\* `x as usize` of a VmbUint32_t x: zero extension to the width of usize.
as_usize(x) == x \o <<0, 0>>

\* camera.rs:105-108: the slice of bufferSize bytes at frame.buffer.
from_raw_parts(buffer, size) == SubSeq(buffer, 1, size)

\* Frame::from_c_struct with offset_x and offset_y taken from each other's
\* field.
from_c_struct_offsets_swapped(f, data) ==
    [data |-> data,
     width |-> as_usize(f.width),
     height |-> as_usize(f.height),
     offset_x |-> as_usize(f.offsetY),
     offset_y |-> as_usize(f.offsetX),
     id |-> f.frameID,
     timestamp |-> f.timestamp]

\* camera.rs:70-80: Frame::from_c_struct.
from_c_struct(f, data) ==
    [data |-> data,
     width |-> as_usize(f.width),
     height |-> as_usize(f.height),
     offset_x |-> as_usize(f.offsetX),
     offset_y |-> as_usize(f.offsetY),
     id |-> f.frameID,
     timestamp |-> f.timestamp]

\* camera.rs:105-111: Frame::from_c_struct_ref_data.
from_c_struct_ref_data(f) ==
    from_c_struct(f, from_raw_parts(f.buffer, f.bufferSize))

\* camera.rs:82-93: Frame::map_data, fdata being f(&self.data), the value of
\* the closure on the data.
map_data(self, fdata) ==
    [data |-> fdata,
     width |-> self.width,
     height |-> self.height,
     offset_x |-> self.offset_x,
     offset_y |-> self.offset_y,
     id |-> self.id,
     timestamp |-> self.timestamp]

\* <[u8]>::to_vec: a new vector with a copy of each byte.
to_vec(d) == [j \in 1..Len(d) |-> d[j]]

\* camera.rs:99-101: Frame::with_vec_data.
with_vec_data(self) == map_data(self, to_vec(self.data))

\* The descriptors a driver completion may leave: a buffer of at most MaxSize
\* bytes, bufferSize of them valid, and any metadata.
CompletedFrames ==
    UNION {[buffer : ByteSeqs(n), bufferSize : 0..n,
            width : U32s, height : U32s, offsetX : U32s, offsetY : U32s,
            frameID : U64s, timestamp : U64s] : n \in 0..MaxSize}

FrameInit ==
    /\ CameraInit
    /\ healthy = TRUE
    /\ VimbaOpened
    /\ frame \in {<<f>> : f \in CompletedFrames}
    /\ view = <<>>
    /\ owned = <<>>

\* camera.rs:240: wrapper makes the Frame<&[u8]> it hands to the handler.
WrapperMakesFrame ==
    /\ view = <<>>
    /\ view' = <<from_c_struct_ref_data(frame[1])>>
    /\ UNCHANGED <<streamVars, healthy, vimbaVars, frame, owned>>

\* camera.rs:179: the handler of get_frame copies the frame.
HandlerCopiesFrame ==
    /\ view # <<>> /\ owned = <<>>
    /\ owned' = <<with_vec_data(view[1])>>
    /\ UNCHANGED <<streamVars, healthy, vimbaVars, frame, view>>

FrameNext ==
    \/ WrapperMakesFrame
    \/ HandlerCopiesFrame

FrameSpec == FrameInit /\ [][FrameNext]_vars

\* ------------------------------------------------------------------ Vimba

\* Most Vimba values, most Camera values and most pending context drops.
MaxHandles == 3

\* The outcomes of VmbStartup: it may fail unless the device is healthy.
StartupOutcomes == {ok \in BOOLEAN : ok \/ ~healthy}

\* The outcomes of VmbCameraOpen: it fails when the driver is not started.
OpenOutcomes == {ok \in BOOLEAN : IF started THEN (ok \/ ~healthy) ELSE ~ok}

\* Before the first Vimba::new: CONTEXT is Weak::new() (vimba.rs:34-36).
VimbaInit ==
    /\ CameraInit
    /\ healthy \in BOOLEAN
    /\ NoFrame
    /\ CONTEXT = "empty"
    /\ strong = 0
    /\ vimbas = 0
    /\ cameras = 0
    /\ newPc = "idle"
    /\ pending = 0
    /\ started = FALSE

\* Weak::upgrade (vimba.rs:48): an Arc if the context is still alive.
upgrade == CONTEXT = "weak" /\ strong > 0

\* Vimba::new going on to VmbStartup whether or not a context is alive.
VimbaNewWithoutUpgrade ==
    /\ newPc = "idle"
    /\ vimbas < MaxHandles
    /\ newPc' = "startup"
    /\ UNCHANGED <<strong, vimbas>>
    /\ UNCHANGED <<streamVars, healthy, frameVars, CONTEXT, cameras, pending, started>>

\* vimba.rs:46-49: Vimba::new takes the lock and upgrades CONTEXT; a live
\* context is shared. Otherwise the thread goes on, holding the lock.
VimbaNew ==
    /\ newPc = "idle"
    /\ vimbas < MaxHandles
    /\ IF upgrade
       THEN /\ strong' = strong + 1
            /\ vimbas' = vimbas + 1
            /\ UNCHANGED newPc
       ELSE /\ newPc' = "startup"
            /\ UNCHANGED <<strong, vimbas>>
    /\ UNCHANGED <<streamVars, healthy, frameVars, CONTEXT, cameras, pending, started>>

\* vimba.rs:50-55 and 21-25: VmbStartup, then a new Arc whose Weak is stored
\* in CONTEXT; an error of VmbStartup is returned. The lock is released.
VimbaNewStartup ==
    /\ newPc = "startup"
    /\ \E ok \in StartupOutcomes :
        IF ok
        THEN /\ started' = TRUE
             /\ strong' = 1
             /\ CONTEXT' = "weak"
             /\ vimbas' = vimbas + 1
        ELSE UNCHANGED <<started, strong, CONTEXT, vimbas>>
    /\ newPc' = "idle"
    /\ UNCHANGED <<streamVars, healthy, frameVars, cameras, pending>>

\* open_camera making a Camera that holds no Arc of the context.
OpenCameraWithoutClone ==
    /\ vimbas > 0
    /\ cameras < MaxHandles
    /\ \E ok \in OpenOutcomes :
        IF ok
        THEN /\ cameras' = cameras + 1
             /\ UNCHANGED strong
        ELSE UNCHANGED <<cameras, strong>>
    /\ UNCHANGED <<streamVars, healthy, frameVars, CONTEXT, vimbas, newPc, pending, started>>

\* vimba.rs:84-91: open_camera; the Camera gets a clone of the Vimba's Arc.
OpenCamera ==
    /\ vimbas > 0
    /\ cameras < MaxHandles
    /\ \E ok \in OpenOutcomes :
        IF ok
        THEN /\ cameras' = cameras + 1
             /\ strong' = strong + 1
        ELSE UNCHANGED <<cameras, strong>>
    /\ UNCHANGED <<streamVars, healthy, frameVars, CONTEXT, vimbas, newPc, pending, started>>

\* An Arc<VimbaContext> is dropped: the strong count goes down, and the
\* thread that took it to zero begins VimbaContext::drop.
ArcDrop ==
    /\ strong > 0
    /\ strong' = strong - 1
    /\ pending' = IF strong = 1 THEN pending + 1 ELSE pending
    /\ strong = 1 => pending < MaxHandles

\* A Vimba goes out of scope (vimba.rs:40-42).
DropVimba ==
    /\ vimbas > 0
    /\ vimbas' = vimbas - 1
    /\ ArcDrop
    /\ UNCHANGED <<streamVars, healthy, frameVars, CONTEXT, cameras, newPc, started>>

\* A Camera goes out of scope (camera.rs:150-155): after Drop::drop its
\* fields are dropped, vimba_ctx among them.
DropCamera ==
    /\ cameras > 0
    /\ cameras' = cameras - 1
    /\ ArcDrop
    /\ UNCHANGED <<streamVars, healthy, frameVars, CONTEXT, vimbas, newPc, started>>

\* vimba.rs:28-32: VimbaContext::drop calls VmbShutdown.
VimbaContextDrop ==
    /\ pending > 0
    /\ pending' = pending - 1
    /\ started' = FALSE
    /\ UNCHANGED <<streamVars, healthy, frameVars, CONTEXT, strong, vimbas, cameras, newPc>>

VimbaNext ==
    \/ VimbaNew
    \/ VimbaNewStartup
    \/ OpenCamera
    \/ DropVimba
    \/ DropCamera
    \/ VimbaContextDrop

VimbaSpec == VimbaInit /\ [][VimbaNext]_vars

\* ------------------------------------------------------------------ claims

\* The log is that of a stop_streaming call that got past its Idle test.
IsStopLog == Len(log) > 0 /\ log[1].call = "StopSend"

\* The log is that of a start_streaming call that got past its busy test.
IsStartLog == Len(log) > 0 /\ log[1].call = "PayloadSize"

Last(q) == q[Len(q)]

\* The place of a step in the stop protocol.
StopRank(call) ==
    CASE call = "StopSend" -> 1
      [] call = "AcquisitionStop" -> 2
      [] call = "AcquisitionStatus" -> 3
      [] call = "CaptureEnd" -> 4
      [] call = "CaptureQueueFlush" -> 5
      [] call = "FrameRevoke" -> 6
      [] call = "Release" -> 7
      [] OTHER -> 0

\* Entry b may directly follow entry a in a stop_streaming call.
StopFollows(a, b) ==
    /\ a.ok
    /\ StopRank(a.call) > 0 /\ StopRank(b.call) > 0
    /\ \/ /\ StopRank(b.call) = StopRank(a.call) + 1
          /\ a.call = "AcquisitionStatus" => a.arg = 0
          /\ b.call = "FrameRevoke" => b.arg = 1
          /\ b.call = "Release" => a.arg = b.arg
       \/ /\ a.call = "AcquisitionStatus" /\ b.call = "AcquisitionStatus"
          /\ a.arg = 1
       \/ /\ a.call = "FrameRevoke" /\ b.call = "FrameRevoke"
          /\ b.arg = a.arg + 1

\* C1: stop_streaming on a streaming session sends the stop signal, runs
\* AcquisitionStop, reads AcquisitionStatus until it is false, then calls
\* VmbCaptureEnd, VmbCaptureQueueFlush and VmbFrameRevoke for frames 1..N in
\* turn, and then releases the context; each step is taken only after
\* every earlier step has succeeded.
C1_StopOrder ==
    IsStopLog =>
        \A j \in 2..Len(log) : StopFollows(log[j - 1], log[j])

\* C1 witness: a stop_streaming that read AcquisitionStatus as true at
\* least once and went through every step up to the release of a context
\* of two frames.
C1_Witness ==
    /\ IsStopLog
    /\ Last(log).call = "Release" /\ Last(log).arg = 2
    /\ \E j \in 1..Len(log) : log[j].call = "AcquisitionStatus" /\ log[j].arg = 1
    /\ pc = "idle" /\ ret = "Ok"

\* C2: the context and its buffers are never freed while the driver still
\* has one of its descriptors announced or queued.
C2_NeverFreedWhileHeld == ~staleAnnounced /\ ~staleQueued

\* C3: VmbFrameRevoke is never invoked on a descriptor that is queued with
\* the driver.
C3_NoRevokeOfQueued ==
    [][(pc = "t_revoke" /\ Len(log') > Len(log)) => (i + 1) \notin queued]_vars

\* C4: start_streaming with a context present returns DeviceBusy, makes no
\* device call and leaves the camera, the context and the driver's tables
\* as they were.
C4_BusyLeavesSession ==
    [][(pc = "start_streaming" /\ cb_ctx = "Some" /\ pc' # pc) =>
            /\ ret' = "DeviceBusy" /\ pc' = "idle"
            /\ log' = <<>>
            /\ UNCHANGED <<camVars, ctxVars, drvVars, cbVars, done, fault>>]_vars

\* C4 witness: start_streaming has returned DeviceBusy to a camera whose
\* session is still there, its frames announced.
C4_Witness ==
    /\ pc = "idle" /\ op = "start_streaming" /\ ret = "DeviceBusy"
    /\ cb_ctx = "Some" /\ announced # {}

\* Every device call logged so far succeeded, and so did every re-queue of
\* the callback: the process has not ended.
AllCallsSucceed ==
    /\ \A j \in 1..Len(log) : log[j].ok
    /\ fault = "none"

\* stop_streaming has returned Ok after revoking frames 1..N and releasing
\* the context: nothing is announced or queued and the session is Idle.
StopEndedIdle ==
    /\ pc = "idle" /\ ret = "Ok"
    /\ IsStopLog /\ Last(log).call = "Release"
    /\ Cardinality({j \in 1..Len(log) : log[j].call = "FrameRevoke" /\ log[j].ok})
         = Last(log).arg
    /\ cb_ctx = "None" /\ ~ctx_alloc
    /\ announced = {} /\ queued = {}
    /\ ~staleAnnounced /\ ~staleQueued

\* C5: on a device all of whose calls succeed, a stop_streaming on a started
\* session ends, whatever callbacks run meanwhile, with all N frames revoked,
\* nothing announced or queued and the context released.
C5_StartStopEndsIdle ==
    (healthy /\ []AllCallsSucceed) => ((pc = "t_acqstop") ~> StopEndedIdle)

\* C5 witness: such a stop, called directly after start_streaming, has ended
\* on a session of two frames.
C5_Witness ==
    /\ healthy /\ StopEndedIdle /\ Last(log).arg = 2
    /\ op = "stop_streaming" /\ fault = "none"

\* C6: once the handler has returned StreamContinue(false) on its Kth
\* invocation, it is not invoked again in that session.
C6_NoCallAfterStop == hstop # 0 => hcalls = hstop

\* C6 witness: after the handler returned false the driver has completed
\* another buffer and invoked the callback with it.
C6_Witness == hstop # 0 /\ stopped /\ cbPc = "check" /\ cbLive

\* C7: with a handler that always continues, the stopped flag is set only
\* by a stop message of stop_streaming and every handled frame is queued
\* again; and once stopped is true no callback queues a frame.
C7_ContinueUntilStop ==
    [][/\ (hkind = "cont" /\ ~stopped /\ stopped') => chan > 0
       /\ (hkind = "cont" /\ cbPc = "handler" /\ cbPc' # cbPc /\ fault' = "none")
            => cbPc' = "requeue"
       /\ (hkind = "cont" /\ cbPc = "requeue" /\ cbPc' # cbPc)
            => cbFrame \in queued'
       /\ (ctx_alloc /\ stopped /\ cbLive) => cbPc \in {"idle", "check"}
       /\ (ctx_alloc /\ stopped /\ cbLive /\ queued' # queued) => queued' \subseteq queued]_vars

\* C7 witness: a session with an always-continuing handler that handled a
\* frame, then observed the stop message, and is handed another completed
\* buffer.
C7_Witness ==
    /\ hkind = "cont" /\ hcalls > 0 /\ stopped
    /\ cbPc = "check" /\ cbLive

\* C8: after stop_streaming has sent the stop message, the stopped flag
\* eventually becomes true (here: on a device none of whose calls fails, in
\* a run that no fault ends), even if the callback is never invoked again.
C8_StopForcesStopped == (healthy /\ chan > 0) ~> (stopped \/ fault # "none")

\* start_streaming has returned the error of its last logged call.
StartFailedAt(call) ==
    /\ pc = "idle" /\ ret = "Err"
    /\ IsStartLog /\ Last(log).call = call /\ ~Last(log).ok

\* C9: when AcquisitionStart fails, start_streaming returns with nothing
\* announced or queued, the capture pipeline not started and no context.
C9_AcquisitionStartFailureTornDown ==
    StartFailedAt("AcquisitionStart") =>
        /\ cb_ctx = "None" /\ ~ctx_alloc
        /\ ~staleAnnounced /\ ~staleQueued
        /\ ~capturing

\* C10: when a device call of start_streaming fails after a frame was
\* announced, each frame announced so far has been revoked when the error
\* is returned.
C10_FailedStartRevokesAnnounced ==
    (pc = "idle" /\ ret = "Err" /\ IsStartLog /\ ~Last(log).ok
        /\ Last(log).call \in {"FrameAnnounce", "AcquisitionStatusSelector",
                               "AcquisitionMode", "CaptureStart", "CaptureFrameQueue"}) =>
        \A j \in 1..Len(log) :
            (log[j].call = "FrameAnnounce" /\ log[j].ok) =>
                \E m \in (j + 1)..Len(log) :
                    log[m].call = "FrameRevoke" /\ log[m].arg = log[j].arg /\ log[m].ok

\* The log l records a successful step `call` with argument arg.
LogHas(l, call, arg) ==
    \E j \in 1..Len(l) : l[j].call = call /\ l[j].arg = arg /\ l[j].ok

\* C11: close (and the drop of the Camera) on a streaming session releases
\* the context only after the stop sequence has run: the stop signal,
\* AcquisitionStop, a status read that found acquisition inactive,
\* VmbCaptureEnd, VmbCaptureQueueFlush and the revoke of every frame; the
\* context is not abandoned with frames announced or queued.
C11_CloseRunsStopSequence ==
    [][(pc = "close" /\ cb_ctx = "Some" /\ cb_ctx' = "None") =>
            /\ LogHas(log', "StopSend", 0)
            /\ LogHas(log', "AcquisitionStop", 0)
            /\ LogHas(log', "AcquisitionStatus", 0)
            /\ LogHas(log', "CaptureEnd", 0)
            /\ LogHas(log', "CaptureQueueFlush", 0)
            /\ \A f \in 1..nbuf : LogHas(log', "FrameRevoke", f)
            /\ announced = {} /\ queued = {}]_vars

\* C12: over any sequence of start_streaming, stop_streaming, stream and
\* get_frame calls there is at most one streaming session per camera: a
\* context is allocated (and frames are announced for it) only while the
\* camera has no context and no frame of a live context is announced or
\* queued, and the context stored in the camera is the one allocated.
C12_OneSession ==
    /\ [](cb_ctx = "Some" => ctx_alloc)
    /\ [][(pc = "s_payload" /\ pc' = "s_announce") =>
            (cb_ctx = "None" /\ ~ctx_alloc /\ announced = {} /\ queued = {})]_vars
    /\ [][(pc \in {"s_announce", "s_queue"} /\ Len(log') > Len(log)) =>
            cb_ctx = "None"]_vars

\* C12 witness: get_frame was refused with DeviceBusy because a session of
\* one frame, started by start_streaming, exists.
C12_Witness ==
    /\ pc = "idle" /\ op = "get_frame" /\ ret = "DeviceBusy"
    /\ cb_ctx = "Some" /\ ctx_alloc /\ nbuf = 1

\* C13: stop_streaming on a camera without a context returns Ok, makes no
\* device call, sends no stop message and changes nothing; on a session it
\* returns Ok only with the session torn down: every frame revoked, nothing
\* announced or queued, capture ended and the context released.
C13_StopIdleNoOpElseTornDown ==
    /\ [][(pc = "stop_streaming" /\ cb_ctx = "None" /\ pc' # pc) =>
            /\ pc' = "idle" /\ ret' = "Ok"
            /\ log' = <<>> /\ log = <<>>
            /\ UNCHANGED <<camVars, ctxVars, drvVars, cbVars, done, fault>>]_vars
    /\ []((pc = "idle" /\ ret = "Ok" /\ IsStopLog) =>
            /\ Last(log).call = "Release"
            /\ \A f \in 1..Last(log).arg : LogHas(log, "FrameRevoke", f)
            /\ cb_ctx = "None" /\ ~ctx_alloc
            /\ announced = {} /\ queued = {} /\ ~staleQueued
            /\ ~capturing /\ acquiring = "off")

\* C13 witness: stop_streaming has returned Ok, without a logged step, from
\* an open camera that has no context and a driver that holds nothing.
C13_Witness ==
    /\ pc = "idle" /\ op = "stop_streaming" /\ ret = "Ok"
    /\ log = <<>> /\ cb_ctx = "None" /\ ~capturing /\ open
    /\ ~staleAnnounced /\ healthy

\* The positions of the control thread inside stop_streaming.
StopPcs == {"stop_streaming", "t_acqstop", "t_poll", "t_capend", "t_flush", "t_revoke"}

\* While stream() waits in rx.recv(), the driver goes on completing frames
\* until the handler has returned StreamContinue(false).
HandlerEventuallyStops == (pc = "stream_recv") ~> (hstop # 0)

\* stream() has returned Ok with the session torn down.
StreamEndedIdle == op = "stream" /\ StopEndedIdle

\* C14: stream(handler, N) on an idle camera starts a session; it does not
\* enter stop_streaming before the handler has returned
\* StreamContinue(false); and, if the driver keeps completing frames until
\* the handler does so (on a device none of whose calls fails), it runs the
\* stop protocol and returns with the session Idle.
C14_StreamStopsAfterHandler ==
    /\ []((op = "stream" /\ pc = "stream_recv") =>
            (cb_ctx = "Some" /\ ctx_alloc /\ wrapped /\ capturing /\ acquiring = "on"))
    /\ []((op = "stream" /\ pc \in StopPcs) => hstop # 0)
    /\ (healthy /\ []AllCallsSucceed /\ HandlerEventuallyStops) =>
            ((op = "stream" /\ pc = "start_streaming" /\ cb_ctx = "None")
                ~> StreamEndedIdle)

\* C14 witness: a stream of two frames whose handler continued once and then
\* returned StreamContinue(false) has returned Ok.
C14_Witness ==
    /\ StreamEndedIdle /\ Last(log).arg = 2
    /\ healthy /\ fault = "none" /\ done = 0 /\ cbPc = "idle"

\* get_frame is past the busy test and its own session has not ended.
GetFrameSession ==
    /\ op = "get_frame"
    /\ pc \in {"s_announce", "s_selector", "s_mode", "s_capture", "s_queue",
               "s_acqstart", "stream_recv"} \cup StopPcs

\* While get_frame waits, the driver delivers a completed frame.
DriverDelivers == (pc = "stream_recv") ~> (hcalls > 0)

\* C15: get_frame on an idle camera uses two buffers; its handler is invoked
\* at most once, even when the driver completes the second buffer too;
\* get_frame returns Ok with exactly one frame copied and the session Idle;
\* and, if the driver delivers a frame (on a device none of whose calls
\* fails), every get_frame called on an idle camera returns so.
C15_GetFrameOneFrame ==
    /\ [](GetFrameSession => (nbuf = 2 /\ hcalls <= 1 /\ (stopped => hcalls = 1)))
    /\ [][(op = "get_frame" /\ pc = "t_revoke" /\ pc' = "idle" /\ ret' = "Ok") =>
            /\ hcalls = 1 /\ hstop = 1 /\ done = 0
            /\ cb_ctx' = "None" /\ ~ctx_alloc'
            /\ announced' = {} /\ queued' = {} /\ ~capturing]_vars
    /\ (healthy /\ []AllCallsSucceed /\ DriverDelivers) =>
            ((op = "get_frame" /\ pc = "start_streaming" /\ cb_ctx = "None")
                ~> (op = "get_frame" /\ StopEndedIdle))

\* C15 witness: after the handler of get_frame has copied one frame, the
\* driver has completed the second buffer and invoked the callback with it.
C15_Witness ==
    /\ GetFrameSession /\ hcalls = 1 /\ stopped
    /\ cbPc = "check" /\ cbLive /\ cbFrame # 0

\* stop_streaming has returned the error of a device call made after the
\* stop message was sent.
StopFailedAfterSignal ==
    /\ pc = "idle" /\ ret = "Err"
    /\ IsStopLog /\ ~Last(log).ok
    /\ Last(log).call \in {"AcquisitionStop", "AcquisitionStatus", "CaptureEnd",
                           "CaptureQueueFlush", "FrameRevoke"}

\* C16: a device call of stop_streaming that fails after the stop message
\* was sent ends the process (a fatal fault); it is not handed back to the
\* caller as an error to recover from.
C16_StopFailureIsFatal == StopFailedAfterSignal => fault # "none"

\* C17: when the re-queue inside the callback fails, the process ends (the
\* unwrap panics inside the extern "C" callback): the callback returns from
\* its re-queue only with the frame queued, a failed re-queue leaves the
\* fault "abort", and no step of any thread follows it.
C17_RequeueFailureIsFatal ==
    /\ [][(cbPc = "requeue" /\ cbLive /\ cbPc' # cbPc) =>
            (cbFrame \in queued' /\ fault' = "none")]_vars
    /\ [][(cbPc = "requeue" /\ cbLive /\ fault' = "abort") =>
            (cbFrame \notin queued' /\ queued' = queued /\ cbPc' = cbPc)]_vars
    /\ [][fault # "abort"]_vars

\* C17 witness: a re-queue has failed on a frame the handler had continued
\* on, and the process has ended.
C17_Witness ==
    /\ fault = "abort" /\ cbPc = "requeue" /\ cbLive
    /\ cbFrame \notin queued /\ hcalls > 0 /\ ~stopped

\* Limb k of an unsigned integer, zero beyond its width.
Limb(x, k) == IF k <= Len(x) THEN x[k] ELSE 0

\* Two unsigned integers, of whatever widths, are the same number.
SameNumber(x, y) == \A k \in 1..4 : Limb(x, k) = Limb(y, k)

\* The Frame v carries the metadata of the descriptor d.
CarriesMetadata(v, d) ==
    /\ SameNumber(v.width, d.width)
    /\ SameNumber(v.height, d.height)
    /\ SameNumber(v.offset_x, d.offsetX)
    /\ SameNumber(v.offset_y, d.offsetY)
    /\ SameNumber(v.id, d.frameID)
    /\ SameNumber(v.timestamp, d.timestamp)

\* C18: the Frame handed to the handler has the width, height, offsets,
\* frame id and timestamp of the completed descriptor, and as data the first
\* bufferSize bytes of the descriptor's buffer; the copy with_vec_data makes
\* has the same metadata and the same bytes.
C18_FrameCarriesDescriptor ==
    /\ view # <<>> =>
        /\ CarriesMetadata(view[1], frame[1])
        /\ Len(view[1].data) = frame[1].bufferSize
        /\ \A j \in 1..Len(view[1].data) : view[1].data[j] = frame[1].buffer[j]
    /\ owned # <<>> =>
        /\ CarriesMetadata(owned[1], frame[1])
        /\ owned[1].data = view[1].data
        /\ [f \in {"width", "height", "offset_x", "offset_y", "id", "timestamp"}
                |-> owned[1][f]]
             = [f \in {"width", "height", "offset_x", "offset_y", "id", "timestamp"}
                |-> view[1][f]]

\* C18 witness: a frame of the largest width, different offsets, a frame id
\* above 2^32 and two bytes of data has been handed over and copied.
C18_Witness ==
    /\ owned # <<>>
    /\ frame[1].width = <<LimbMax, LimbMax>>
    /\ frame[1].offsetX # frame[1].offsetY
    /\ frame[1].frameID = <<0, 0, 1, 0>>
    /\ frame[1].bufferSize = 2 /\ owned[1].data = <<255, 0>>

\* C19: the VimbaContext is shared and reference counted. Vimba::new calls
\* VmbStartup only when no context is alive and otherwise takes a share of
\* the live one; the strong count is the number of Vimba and Camera values
\* alive; and VimbaContext::drop (VmbShutdown) is begun only by the drop
\* that leaves the context without a holder.
C19_ContextSharedAndCounted ==
    /\ [](strong = vimbas + cameras)
    /\ [][(newPc = "startup" /\ newPc' = "idle") =>
            (strong = 0 /\ vimbas + cameras = 0)]_vars
    /\ [][(newPc = "idle" /\ newPc' = "idle" /\ vimbas' = vimbas + 1) =>
            (strong > 0 /\ strong' = strong + 1
                /\ UNCHANGED <<started, CONTEXT, pending>>)]_vars
    /\ [][(pending' = pending + 1) <=>
            (strong = 1 /\ strong' = 0 /\ vimbas' + cameras' = 0)]_vars

\* C19 witness: a started context has lost its last holder, whose drop has
\* begun VimbaContext::drop; VmbShutdown has not run yet.
C19_Witness ==
    /\ pending = 1 /\ strong = 0 /\ vimbas = 0 /\ cameras = 0
    /\ started /\ CONTEXT = "weak" /\ newPc = "idle"

\* C20: one invocation of the callback. With a stop message pending it
\* takes the message, sets stopped and returns: no handler call, no queueing.
\* With stopped already true it returns with no effect. Otherwise it calls
\* the handler once and then either sets stopped (the handler returned
\* false) or queues the very frame it was called with (the handler returned
\* true), never both.
C20_CallbackStep ==
    /\ [][(cbPc = "check" /\ cbLive /\ cbPc' # cbPc /\ chan > 0) =>
            /\ cbPc' = "idle" /\ stopped' /\ chan' = chan - 1
            /\ UNCHANGED <<hcalls, hstop, done, queued, announced>>]_vars
    /\ [][(cbPc = "check" /\ cbLive /\ cbPc' # cbPc /\ chan = 0 /\ stopped) =>
            /\ cbPc' = "idle"
            /\ UNCHANGED <<ctxVars, done, drvVars, fault>>]_vars
    /\ [][(cbPc = "check" /\ cbLive /\ cbPc' # cbPc /\ chan = 0 /\ ~stopped) =>
            /\ cbPc' = "handler"
            /\ UNCHANGED <<ctxVars, done, drvVars, cbFrame, fault>>]_vars
    /\ [][(cbPc = "handler" /\ cbLive /\ cbPc' # cbPc) =>
            /\ hcalls' = hcalls + 1
            /\ cbPc' \in {"setstop", "requeue"}
            /\ UNCHANGED <<stopped, queued, cbFrame>>]_vars
    /\ [][(cbPc = "setstop" /\ cbLive /\ cbPc' # cbPc) =>
            /\ cbPc' = "idle" /\ stopped'
            /\ UNCHANGED <<hcalls, queued>>]_vars
    /\ [][(cbPc = "requeue" /\ cbLive /\ cbPc' # cbPc) =>
            /\ cbPc' = "idle"
            /\ queued' = queued \cup {cbFrame}
            /\ UNCHANGED <<hcalls, stopped>>]_vars

\* C20 witness: a callback has called the handler and queued its frame
\* again, and a later callback has taken the stop message and returned
\* without calling the handler.
C20_Witness ==
    /\ ctx_alloc /\ stopped /\ hstop = 0 /\ hcalls = 1 /\ chan = 0
    /\ cbPc = "idle" /\ cbLive /\ pc \in StopPcs

\* C21: while stop_streaming is at VmbCaptureEnd, VmbCaptureQueueFlush or
\* the revokes, and once it has released the context, no invocation of the
\* callback is in progress; in particular (the part stated here) none is
\* calling the handler or about to set stopped or re-queue its frame.
C21_NoCallbackDuringTeardown ==
    /\ (pc \in {"t_capend", "t_flush", "t_revoke"}) => cbPc \in {"idle", "check"}
    /\ (pc = "idle" /\ ret = "Ok" /\ IsStopLog) => cbPc \in {"idle", "check"}


\* C22: once stop_streaming has sent the stop message, the message or the
\* stopped flag it sets stays in the context, so every invocation of the
\* callback that makes its stop test afterwards returns without calling the
\* handler and without queueing a frame; at most one handler call (the one
\* already past the test when the message was sent) is made after the send.
C22_NoHandlerAfterStopSignal ==
    /\ [](hsent # 0 => (chan > 0 \/ stopped))
    /\ [][(cbPc = "check" /\ cbLive /\ hsent # 0 /\ cbPc' # cbPc)
            => (cbPc' = "idle" /\ hcalls' = hcalls /\ queued' = queued)]_vars
    /\ [](hsent # 0 => hcalls <= hsent)

\* The handler call in progress when the message was sent has completed and
\* re-queued its frame, and a later invocation has taken the message, set
\* stopped and returned: the handler count is still one past the count at
\* the send and the handler itself never asked to stop.
C22_Witness ==
    /\ hsent # 0 /\ hcalls = hsent /\ hstop = 0
    /\ stopped /\ chan = 0 /\ cbPc = "idle"
    /\ pc \in StopPcs /\ fault = "none"


\* The device steps of a start_streaming with n buffers that runs to its
\* end, as <<call, argument>> pairs.
StartSequence(n) ==
    <<(<<"PayloadSize", 0>>)>>
    \o [j \in 1..n |-> <<"FrameAnnounce", j>>]
    \o << <<"AcquisitionStatusSelector", 0>>, <<"AcquisitionMode", 0>>,
          <<"CaptureStart", 0>> >>
    \o [j \in 1..n |-> <<"CaptureFrameQueue", j>>]
    \o <<(<<"AcquisitionStart", 0>>)>>

\* The log l is the first Len(l) steps of StartSequence(n), every step but
\* possibly the last one successful.
StartPrefix(l, n) ==
    /\ Len(l) <= Len(StartSequence(n))
    /\ \A j \in 1..Len(l) :
        /\ <<l[j].call, l[j].arg>> = StartSequence(n)[j]
        /\ j < Len(l) => l[j].ok

\* C23: a start_streaming call makes its device calls in the order
\* PayloadSize, VmbFrameAnnounce 1..N, AcquisitionStatusSelector,
\* AcquisitionMode, VmbCaptureStart, VmbCaptureFrameQueue 1..N,
\* AcquisitionStart, each only after the earlier ones succeeded, and a call
\* that returns Ok has made all of them; a frame it queues is announced and
\* capture is started; and a callback runs on a context only when that
\* context is stored in the camera.
C23_StartOrder ==
    /\ [](IsStartLog => \E n \in 1..MaxBuffers : StartPrefix(log, n))
    /\ []((IsStartLog /\ Last(log).call = "AcquisitionStart" /\ Last(log).ok)
            => (nbuf \in 1..MaxBuffers /\ StartPrefix(log, nbuf)
                /\ Len(log) = Len(StartSequence(nbuf))))
    /\ [][(pc = "s_queue" /\ queued' \ queued # {})
            => (/\ queued' \ queued = {i + 1}
                /\ i + 1 \in announced
                /\ capturing)]_vars
    /\ []((cbPc # "idle" /\ cbLive) => cb_ctx = "Some")

\* A start_streaming with two buffers has returned Ok and the driver has
\* invoked the callback on one of its frames.
C23_Witness ==
    /\ IsStartLog /\ Last(log).call = "AcquisitionStart" /\ Last(log).ok
    /\ nbuf = 2 /\ ret = "Ok"
    /\ cbPc = "check" /\ cbLive


\* C24: every VmbFrameRevoke that stop_streaming invokes is invoked on a
\* frame that is announced at that moment, so that over any sequence of
\* calls, a stop_streaming repeated after a failed one included, no frame
\* is revoked twice.
C24_RevokeOnlyAnnounced ==
    [][(pc = "t_revoke" /\ log' # log) => i + 1 \in announced]_vars


\* C25: stop_streaming is past its status poll only when AcquisitionStatus
\* has read false; while the status is true the only way out of the poll
\* is a failed read, which returns the error, so with successful reads and
\* a status that stays true the call never returns; and when every device
\* call succeeds and the camera in the end stops acquiring, a
\* stop_streaming that has reached the poll returns Ok with the session
\* Idle.
C25_PollUntilInactive ==
    /\ [](pc \in {"t_capend", "t_flush", "t_revoke"} => acquiring = "off")
    /\ [][(pc = "t_poll" /\ acquiring # "off" /\ pc' # pc)
            => (pc' = "idle" /\ ret' = "Err"
                /\ Last(log').call = "AcquisitionStatus" /\ ~Last(log').ok)]_vars
    /\ (healthy /\ []AllCallsSucceed) => ((pc = "t_poll") ~> StopEndedIdle)

\* On a device whose calls all succeed, a stop_streaming that read the
\* status as true and later as false has returned Ok with the session Idle.
C25_Witness ==
    /\ healthy /\ StopEndedIdle
    /\ \E j \in 1..Len(log) : log[j].call = "AcquisitionStatus" /\ log[j].arg = 1
    /\ \E j \in 1..Len(log) : log[j].call = "AcquisitionStatus" /\ log[j].arg = 0


\* C26: a device call of stop_streaming that fails is the last step of that
\* stop_streaming: the call returns the error and leaves the context, its
\* memory and the driver's tables as they were, so that after the failure
\* the context is still stored in the camera; and a start_streaming called
\* in that state finds the context at its busy test and returns DeviceBusy.
C26_StopFailureKeepsSession ==
    /\ [][(pc \in StopPcs /\ log' # log /\ ~Last(log').ok)
            => (/\ pc' = "idle" /\ ret' = "Err"
                /\ UNCHANGED <<camVars, ctxVars, drvVars>>)]_vars
    /\ [](IsStopLog => \A j \in 1..Len(log) :
            ~log[j].ok => (j = Len(log) /\ pc = "idle" /\ ret = "Err"))
    /\ [](StopFailedAfterSignal => (cb_ctx = "Some" /\ ctx_alloc /\ nbuf > 0))
    /\ [][(StopFailedAfterSignal /\ pc' = "start_streaming")
            => cb_ctx' = "Some"]_vars
    /\ [][(pc = "start_streaming" /\ cb_ctx = "Some")
            => (cb_ctx' = "Some"
                /\ (pc' # pc => (pc' = "idle" /\ ret' = "DeviceBusy")))]_vars

\* After a stop_streaming that sent the stop message, saw the camera go
\* inactive and then failed before ending the capture, start_streaming was
\* called and has returned DeviceBusy; the context is still there.
C26_Witness ==
    /\ pc = "idle" /\ op = "start_streaming" /\ ret = "DeviceBusy"
    /\ cb_ctx = "Some" /\ ctx_alloc
    /\ chan > 0 /\ acquiring = "off" /\ capturing


\* The camera holds the context of a session begun with start_streaming
\* whose handler has returned StreamContinue(false).
HandlerStoppedSession == cb_ctx = "Some" /\ ~wrapped /\ hstop # 0

\* C27: once the handler of a session begun with start_streaming has
\* returned StreamContinue(false), no step other than one of a
\* stop_streaming (or close) call releases the context, frees its memory
\* or changes what is announced, and a start_streaming called meanwhile
\* returns DeviceBusy.
C27_HandlerStopKeepsSession ==
    /\ [](HandlerStoppedSession => ctx_alloc)
    /\ [][(HandlerStoppedSession /\ pc \notin StopPcs \cup {"close"})
            => (HandlerStoppedSession'
                /\ UNCHANGED <<cb_ctx, ctx_alloc, nbuf, announced>>)]_vars
    /\ [][(HandlerStoppedSession /\ hsent = 0 /\ pc \notin StopPcs \cup {"close"})
            => announced' = 1..nbuf]_vars
    /\ [][(HandlerStoppedSession /\ pc = "start_streaming" /\ pc' # pc)
            => (pc' = "idle" /\ ret' = "DeviceBusy")]_vars

\* The handler of a start_streaming session returned StreamContinue(false),
\* the callback set stopped and returned, no stop_streaming was called, and
\* a start_streaming called afterwards has returned DeviceBusy with both
\* frames still announced.
C27_Witness ==
    /\ HandlerStoppedSession /\ stopped /\ cbPc = "idle"
    /\ hsent = 0 /\ chan = 0
    /\ pc = "idle" /\ op = "start_streaming" /\ ret = "DeviceBusy"
    /\ announced = {1, 2}


\* C28: a frame is handed to VmbCaptureFrameQueue only while the driver does
\* not have it queued: the driver's queue grows only by the frame
\* start_streaming is queueing and by the frame a callback re-queues; the
\* callback reaches its re-queue only from a handler call that returned
\* continue, and re-queues the frame it was invoked with; so at most N
\* frames, all of the session, are queued, and the frame the handler is
\* reading is one of the session's that the driver has completed and does
\* not have queued.
C28_NoDoubleQueue ==
    /\ [][(pc = "s_queue" /\ log' # log) => i + 1 \notin queued]_vars
    /\ [][(cbPc = "requeue" /\ cbLive /\ (cbPc' # cbPc \/ fault' # fault))
            => (cbFrame \notin queued /\ queued' \subseteq queued \cup {cbFrame})]_vars
    /\ [][(queued' \ queued # {})
            => \/ pc = "s_queue" /\ queued' = queued \cup {i + 1}
               \/ cbPc = "requeue" /\ cbLive /\ queued' = queued \cup {cbFrame}]_vars
    /\ [][(cbPc # "requeue" /\ cbPc' = "requeue")
            => (cbPc = "handler" /\ hcalls' = hcalls + 1 /\ hstop' = hstop
                /\ cbFrame' = cbFrame)]_vars
    /\ [](ctx_alloc => (queued \subseteq 1..nbuf /\ Cardinality(queued) <= nbuf))
    /\ []((cbPc \in {"handler", "setstop", "requeue"} /\ cbLive)
            => (cbFrame \in 1..nbuf /\ cbFrame \notin queued))

\* In a session of two frames the handler has continued at least once, its
\* frame was queued again, and it is now reading one completed frame while
\* the driver has the other one queued.
C28_Witness ==
    /\ cbPc = "handler" /\ cbLive /\ nbuf = 2
    /\ hcalls >= 1 /\ hstop = 0
    /\ queued = (1..nbuf) \ {cbFrame}


\* C29: whenever a Vimba or a Camera exists the driver is started: no
\* VmbShutdown of an earlier context runs after the VmbStartup of the
\* context those handles hold.
C29_HandlesImplyStarted == (vimbas + cameras > 0) => started

=============================================================================
